---- MODULE Spec2Model ----
(***************************************************************************)
(* The autosave hook of apps/smriti (useAutosave) over the Dexie store:    *)
(* the debounced update buffer, the flush that writes the Draft row and    *)
(* the snapshot ring, the lifecycle triggers and restoreFromSnapshot.      *)
(* Every await on the store is a suspension point: the part of a handler   *)
(* up to its next await is one action, a db.transaction body is atomic.    *)
(***************************************************************************)
EXTENDS Integers, Sequences, FiniteSets

\* ------------------------------------------------------------------ bounds
MaxChanges == 2          \* onChange calls in one behaviour
MaxFlushes == 2          \* flush invocations in one behaviour of Spec
MaxDeepFlushes == 3      \* flush invocations in one behaviour of SeqSpec and RingSpec
MaxRestores == 1         \* restoreFromSnapshot invocations in one behaviour
MaxTicks == 1            \* clock ticks in one behaviour of Spec
MaxDeepTicks == 2        \* clock ticks in one behaviour of SeqSpec and RingSpec
MaxSnapshotLimit == 2    \* opts.snapshotLimit ranges over 1..MaxSnapshotLimit
MaxInFlight == 2         \* flush and restore invocations in flight at one time in Spec

\* ------------------------------------------------------------------ values
Undef == "undefined"     \* a missing property, or JS undefined
Null == "null"           \* JS null

draftId == "current"
otherDraftId == "other"

\* opts.delayMs, the value of the spec's scenario (the default is 1200)
delayMs == 1000
\* the model's clock advances in steps of one and a half delays, the spacing of
\* the flushes in the spec's scenario
TickMs == delayMs + delayMs \div 2

Nullish(v) == v \in {Undef, Null}

\* a ?? b
Coalesce(a, b) == IF Nullish(a) THEN b ELSE a

\* DraftUpdate: every attribute optional
EmptyUpdate ==
  [projectName |-> Undef, promptName |-> Undef, docJson |-> Undef, selection |-> Undef]

\* the updates the editing surface and the shell hand to onChange
Updates ==
  { [projectName |-> "p", promptName |-> "q", docJson |-> Undef, selection |-> Undef],
    [projectName |-> "", promptName |-> Undef, docJson |-> "d1", selection |-> "s1"],
    [projectName |-> Undef, promptName |-> Undef, docJson |-> "d2", selection |-> Null] }

\* { ...buf, ...update }
Spread(buf, update) ==
  [projectName |-> IF update.projectName # Undef THEN update.projectName ELSE buf.projectName,
   promptName |-> IF update.promptName # Undef THEN update.promptName ELSE buf.promptName,
   docJson |-> IF update.docJson # Undef THEN update.docJson ELSE buf.docJson,
   selection |-> IF update.selection # Undef THEN update.selection ELSE buf.selection]

\* Object.keys(buf).length
KeyCount(buf) ==
  Cardinality({k \in {"projectName", "promptName", "docJson", "selection"} : buf[k] # Undef})

\* !bufferRef.current : the ref always holds an object, and every object is truthy
RefIsFalsy(buf) == FALSE

\* db.drafts.get of a missing key: every property of the result reads as undefined
\* (version 0 stands for the undefined that `?? 0` replaces)
NoRow ==
  [id |-> Undef, projectName |-> Undef, promptName |-> Undef, docJson |-> Undef,
   selection |-> Undef, updatedAt |-> 0, version |-> 0]

\* FlushNext with `(prev?.version ?? 1) + 1`
FlushNextFromOne(update, prev, now) ==
  [id |-> draftId,
   projectName |-> Coalesce(update.projectName, prev.projectName),
   promptName |-> Coalesce(update.promptName, prev.promptName),
   docJson |-> Coalesce(update.docJson, prev.docJson),
   selection |-> Coalesce(Coalesce(update.selection, prev.selection), Null),
   updatedAt |-> now,
   version |-> (IF prev.version = 0 THEN 1 ELSE prev.version) + 1]

\* the DraftRecord a flush computes from its update and the row it read
FlushNext(update, prev, now) ==
  [id |-> draftId,
   projectName |-> Coalesce(update.projectName, prev.projectName),
   promptName |-> Coalesce(update.promptName, prev.promptName),
   docJson |-> Coalesce(update.docJson, prev.docJson),
   selection |-> Coalesce(Coalesce(update.selection, prev.selection), Null),
   updatedAt |-> now,
   version |-> prev.version + 1]

\* RestoreNext with the naming fields read from the snapshot, which has none
RestoreNextNamesFromSnapshot(snap, prev, now) ==
  [id |-> draftId,
   projectName |-> Undef,
   promptName |-> Undef,
   docJson |-> snap.docJson,
   selection |-> Coalesce(snap.selection, Null),
   updatedAt |-> now,
   version |-> prev.version + 1]

\* the DraftRecord a restore computes from the snapshot and the row it read
RestoreNext(snap, prev, now) ==
  [id |-> draftId,
   projectName |-> prev.projectName,
   promptName |-> prev.promptName,
   docJson |-> snap.docJson,
   selection |-> Coalesce(snap.selection, Null),
   updatedAt |-> now,
   version |-> prev.version + 1]

\* NewSnapshot with `selection: null` in place of the next row's selection
NewSnapshotDropsSelection(key, next, now) ==
  [id |-> key, draftId |-> draftId, docJson |-> next.docJson,
   selection |-> Null, createdAt |-> now]

\* the SnapshotRecord a flush adds; the store assigns the key
NewSnapshot(key, next, now) ==
  [id |-> key, draftId |-> draftId, docJson |-> next.docJson,
   selection |-> Coalesce(next.selection, Null), createdAt |-> now]

\* db.snapshots.where('draftId').equals(d)
WhereDraft(rows, d) == {s \in rows : s.draftId = d}

\* the order of sortBy('createdAt'): a stable sort of a collection that the
\* draftId index yields in ascending primary key
Precedes(a, b) ==
  \/ a.createdAt < b.createdAt
  \/ a.createdAt = b.createdAt /\ a.id < b.id

\* SortByCreatedAt with the rows left in the order of their keys
SortByKey(rows) ==
  [i \in 1..Cardinality(rows) |->
     CHOOSE r \in rows : Cardinality({x \in rows : x.id < r.id}) = i - 1]

SortByCreatedAt(rows) ==
  [i \in 1..Cardinality(rows) |->
     CHOOSE r \in rows : Cardinality({x \in rows : Precedes(x, r)}) = i - 1]

\* EvictIds with `oldest.slice(0, toDelete - 1)`
EvictIdsOneShort(rows, limit) ==
  LET count == Cardinality(rows)
      toDelete == count - limit
      oldest == SortByCreatedAt(rows)
  IN  IF count > limit
      THEN {oldest[i].id : i \in {j \in 1..count : j <= toDelete - 1}} \ {0}
      ELSE {}

\* oldest.slice(0, toDelete).map(s => s.id).filter(Boolean)
EvictIds(rows, limit) ==
  LET count == Cardinality(rows)
      toDelete == count - limit
      oldest == SortByCreatedAt(rows)
  IN  IF count > limit
      THEN {oldest[i].id : i \in {j \in 1..count : j <= toDelete}} \ {0}
      ELSE {}

\* the snapshots table after the body of the flush transaction
RingAfterAdd(rows, row, limit) ==
  LET added == rows \cup {row}
      ids == EvictIds(WhereDraft(added, draftId), limit)
  IN  {s \in added : s.id \notin ids}

\* db.snapshots.get(key)
SnapshotGet(rows, key) ==
  IF \E s \in rows : s.id = key THEN CHOOSE s \in rows : s.id = key
  ELSE [id |-> 0, draftId |-> Undef, docJson |-> Undef, selection |-> Undef, createdAt |-> 0]

\* ------------------------------------------------------------------ state
VARIABLES
  drafts,         \* the drafts table's row of draftId, NoRow when there is none
  snapshots,      \* the snapshots table
  nextId,         \* the next auto-incremented snapshot key
  snapshotLimit,  \* opts.snapshotLimit
  buffer,         \* bufferRef.current
  timerRef,       \* timerRef.current: 0 for null, else a timer handle
  timers,         \* the timeouts the window holds: [id, due]
  nextTimer,      \* the handle the next setTimeout returns (one per onChange call)
  clock,          \* Date.now()
  mounted,        \* the component is mounted
  draft,          \* useState draft (NoRow for null)
  saving,         \* useState saving
  error,          \* useState error
  flushes,        \* the flush invocations in call order; a settled one keeps its pc only
  restores,       \* the restoreFromSnapshot invocations in call order; a settled one
                  \* keeps its pc and the key of the snapshot it restored only
  pending,        \* history: the onChange calls merged into bufferRef.current:
                  \* [n: the call's number, update, gap: the time since the call
                  \* before it, seen: the flushes called before it, during: a
                  \* flush was in flight at the call]
  lastChange,     \* history: the clock at the latest onChange call
  signalled,      \* history: a lifecycle handler (visibilitychange, pagehide, unmount) ran
  writes,         \* history: the writes of the Draft row in commit order:
                  \* [kind, version, at: the writer's Date.now()]
  evicted         \* history: the snapshot rows the latest flush transaction deleted

vars ==
  <<drafts, snapshots, nextId, snapshotLimit, buffer, timerRef, timers, nextTimer,
    clock, mounted, draft, saving, error, flushes, restores, pending, lastChange,
    signalled, writes, evicted>>

storeVars == <<drafts, snapshots, nextId, writes, evicted>>
timerVars == <<timerRef, timers, nextTimer>>
uiVars == <<draft, saving, error>>
editVars == <<pending, lastChange>>

Init ==
  /\ drafts = NoRow
  /\ snapshots = {[id |-> 1, draftId |-> otherDraftId, docJson |-> "d1",
                   selection |-> Null, createdAt |-> 0]}
  /\ nextId = 2
  /\ snapshotLimit \in 1..MaxSnapshotLimit
  /\ buffer = EmptyUpdate
  /\ timerRef = 0
  /\ timers = {}
  /\ nextTimer = 1
  /\ clock = 0
  /\ mounted = TRUE
  /\ draft = NoRow
  /\ saving = FALSE
  /\ error = Undef
  /\ flushes = <<>>
  /\ restores = <<>>
  /\ pending = <<>>
  /\ lastChange = 0
  /\ signalled = FALSE
  /\ writes = <<>>
  /\ evicted = {}

\* ------------------------------------------------------------------ helpers
\* window.clearTimeout(handle)
ClearTimeout(held, handle) == {t \in held : t.id # handle}

\* the numbers of the onChange calls in a sequence of pending entries
Numbers(entries) == {entries[k].n : k \in 1..Len(entries)}

\* a flush invocation that has settled
SettledFlush(pc) ==
  [trigger |-> "", update |-> EmptyUpdate, taken |-> <<>>, now |-> 0, quiet |-> 0,
   pc |-> pc, next |-> NoRow]

\* FlushCall without `bufferRef.current = {}`
FlushCallKeepsBuffer(trigger) ==
  /\ UNCHANGED <<buffer, pending>>
  /\ saving' = IF mounted THEN TRUE ELSE saving
  /\ error' = IF mounted THEN Undef ELSE error
  /\ flushes' = Append(flushes,
       [trigger |-> trigger, update |-> buffer, taken |-> pending, now |-> clock,
        quiet |-> clock - lastChange, pc |-> "get", next |-> NoRow])

\* the synchronous part of flush(): take the buffer, clear it, raise saving,
\* and call db.drafts.get
FlushCall(trigger) ==
  IF RefIsFalsy(buffer)
  THEN UNCHANGED <<buffer, pending, saving, error, flushes>>
  ELSE /\ buffer' = EmptyUpdate
       /\ pending' = <<>>
       /\ saving' = IF mounted THEN TRUE ELSE saving
       /\ error' = IF mounted THEN Undef ELSE error
       /\ flushes' = Append(flushes,
            [trigger |-> trigger, update |-> buffer, taken |-> pending, now |-> clock,
             quiet |-> clock - lastChange, pc |-> "get", next |-> NoRow])

\* a flush is between its call and its settlement
FlushInFlight == \E i \in 1..Len(flushes) : flushes[i].pc \in {"get", "tx"}

\* the flush and restore invocations between their call and their settlement
InFlight ==
  Cardinality({i \in 1..Len(flushes) : flushes[i].pc \notin {"done", "failed"}})
    + Cardinality({j \in 1..Len(restores) : restores[j].pc \notin {"done", "notfound"}})

\* ------------------------------------------------------------------ actions
\* time passes
Tick ==
  /\ clock' = clock + TickMs
  /\ UNCHANGED <<storeVars, snapshotLimit, buffer, timerVars, mounted, uiVars,
                 flushes, restores, editVars, signalled>>

\* OnChange without the clearTimeout of the outstanding timer
OnChangeKeepsTimer(update) ==
  /\ mounted
  /\ buffer' = Spread(buffer, update)
  /\ timers' = timers \cup {[id |-> nextTimer, due |-> clock + delayMs]}
  /\ timerRef' = nextTimer
  /\ nextTimer' = nextTimer + 1
  /\ pending' = Append(pending, [n |-> nextTimer, update |-> update,
                                 gap |-> clock - lastChange, seen |-> Len(flushes),
                                 during |-> FlushInFlight])
  /\ lastChange' = clock
  /\ UNCHANGED <<storeVars, snapshotLimit, clock, mounted, uiVars, flushes, restores,
                 signalled>>

\* onChange(update)
OnChange(update) ==
  /\ mounted
  /\ buffer' = Spread(buffer, update)
  /\ timers' = (IF timerRef # 0 THEN ClearTimeout(timers, timerRef) ELSE timers)
                 \cup {[id |-> nextTimer, due |-> clock + delayMs]}
  /\ timerRef' = nextTimer
  /\ nextTimer' = nextTimer + 1
  /\ pending' = Append(pending, [n |-> nextTimer, update |-> update,
                                 gap |-> clock - lastChange, seen |-> Len(flushes),
                                 during |-> FlushInFlight])
  /\ lastChange' = clock
  /\ UNCHANGED <<storeVars, snapshotLimit, clock, mounted, uiVars, flushes, restores,
                 signalled>>

\* the timeout's callback: timerRef.current = null; void flush()
TimerFire ==
  /\ \E t \in timers :
       /\ clock >= t.due
       /\ timers' = timers \ {t}
  /\ timerRef' = 0
  /\ FlushCall("timer")
  /\ UNCHANGED <<storeVars, snapshotLimit, nextTimer, clock, mounted, draft, restores,
                 lastChange, signalled>>

\* ForcedFlush without the clearTimeout of the outstanding timer
ForcedFlushKeepsTimer ==
  /\ mounted
  /\ FlushCall("lifecycle")
  /\ signalled' = TRUE
  /\ UNCHANGED <<storeVars, snapshotLimit, timerVars, clock, mounted, draft,
                 restores, lastChange>>

\* the synchronous body shared by onVisibility (when hidden) and onPageHide
ForcedFlush ==
  /\ mounted
  /\ timers' = IF timerRef # 0 THEN ClearTimeout(timers, timerRef) ELSE timers
  /\ FlushCall("lifecycle")
  /\ signalled' = TRUE
  /\ UNCHANGED <<storeVars, snapshotLimit, timerRef, nextTimer, clock, mounted, draft,
                 restores, lastChange>>

\* visibilitychange with document.visibilityState === 'hidden'
OnVisibility == ForcedFlush

\* pagehide
OnPageHide == ForcedFlush

\* Unmount without the test for a non-empty buffer
UnmountAlwaysFlushes ==
  /\ mounted
  /\ mounted' = FALSE
  /\ timers' = IF timerRef # 0 THEN ClearTimeout(timers, timerRef) ELSE timers
  /\ FlushCall("unmount")
  /\ signalled' = TRUE
  /\ UNCHANGED <<storeVars, snapshotLimit, timerRef, nextTimer, clock, draft, restores,
                 lastChange>>

\* the effects' cleanups on unmount
Unmount ==
  /\ mounted
  /\ mounted' = FALSE
  /\ timers' = IF timerRef # 0 THEN ClearTimeout(timers, timerRef) ELSE timers
  /\ IF ~RefIsFalsy(buffer) /\ KeyCount(buffer) > 0
     THEN FlushCall("unmount")
     ELSE UNCHANGED <<buffer, pending, saving, error, flushes>>
  /\ signalled' = TRUE
  /\ UNCHANGED <<storeVars, snapshotLimit, timerRef, nextTimer, clock, draft, restores,
                 lastChange>>

\* flush: db.drafts.get resolves; next is computed and db.transaction is called
FlushGet(i) ==
  /\ flushes[i].pc = "get"
  /\ flushes' = [flushes EXCEPT ![i].pc = "tx",
                                ![i].next = FlushNext(flushes[i].update, drafts, flushes[i].now)]
  /\ UNCHANGED <<storeVars, snapshotLimit, buffer, timerVars, clock, mounted, uiVars,
                 restores, editVars, signalled>>

\* flush: the transaction runs and commits (put, add, count, sortBy, bulkDelete),
\* and its continuation follows: setDraft(next); setSaving(false)
FlushCommit(i) ==
  /\ flushes[i].pc = "tx"
  /\ LET row == NewSnapshot(nextId, flushes[i].next, flushes[i].now)
         kept == RingAfterAdd(snapshots, row, snapshotLimit)
     IN  /\ drafts' = flushes[i].next
         /\ snapshots' = kept
         /\ evicted' = (snapshots \cup {row}) \ kept
  /\ nextId' = nextId + 1
  /\ writes' = Append(writes, [kind |-> "flush", version |-> flushes[i].next.version,
                               at |-> flushes[i].now])
  /\ flushes' = [flushes EXCEPT ![i] = SettledFlush("done")]
  /\ draft' = IF mounted THEN flushes[i].next ELSE draft
  /\ saving' = IF mounted THEN FALSE ELSE saving
  /\ UNCHANGED <<snapshotLimit, buffer, timerVars, clock, mounted, error, restores,
                 pending, lastChange, signalled>>

\* the storage steps of the flush transaction's body that run when the table
\* holds `added` after the add: the eviction steps run only when count > limit
TxSteps(added, limit) ==
  IF Cardinality(WhereDraft(added, draftId)) > limit
  THEN {"put", "add", "count", "sortBy", "bulkDelete"}
  ELSE {"put", "add", "count"}

\* the store as the body of the flush transaction has left it when `step` rejects
TxPartial(step, next, row) ==
  [drafts |-> IF step = "put" THEN drafts ELSE next,
   snapshots |-> IF step \in {"put", "add"} THEN snapshots ELSE snapshots \cup {row},
   nextId |-> IF step \in {"put", "add"} THEN nextId ELSE nextId + 1]

\* db.transaction rejects: the engine undoes every write of the body and
\* reverts the key generator, so the store is as it was when the body began
TxAbort(begin, partial) == begin

\* FlushFail with the writes of the transaction's body left in the store
FlushFailKeepsPartial(i) ==
  /\ flushes[i].pc \in {"get", "tx"}
  /\ IF flushes[i].pc = "get"
     THEN /\ UNCHANGED <<drafts, snapshots, nextId>>
          /\ error' = IF mounted THEN "GetError" ELSE error
     ELSE \E step \in TxSteps(snapshots \cup {NewSnapshot(nextId, flushes[i].next,
                                                         flushes[i].now)}, snapshotLimit) :
            LET row == NewSnapshot(nextId, flushes[i].next, flushes[i].now)
                partial == TxPartial(step, flushes[i].next, row)
            IN  /\ drafts' = partial.drafts
                /\ snapshots' = partial.snapshots
                /\ nextId' = partial.nextId
                /\ error' = IF mounted THEN "TxError" ELSE error
  /\ flushes' = [flushes EXCEPT ![i] = SettledFlush("failed")]
  /\ saving' = IF mounted THEN FALSE ELSE saving
  /\ UNCHANGED <<writes, evicted, snapshotLimit, buffer, timerVars, clock, mounted, draft,
                 restores, pending, lastChange, signalled>>

\* FlushFail with the update of the failed flush merged back into the buffer
FlushFailRestoresBuffer(i) ==
  /\ flushes[i].pc \in {"get", "tx"}
  /\ error' = IF mounted THEN (IF flushes[i].pc = "get" THEN "GetError" ELSE "TxError")
              ELSE error
  /\ buffer' = Spread(flushes[i].update, buffer)
  /\ flushes' = [flushes EXCEPT ![i] = SettledFlush("failed")]
  /\ saving' = IF mounted THEN FALSE ELSE saving
  /\ UNCHANGED <<storeVars, snapshotLimit, timerVars, clock, mounted, draft,
                 restores, pending, lastChange, signalled>>

\* flush: db.drafts.get rejects, or a storage step of the transaction rejects and
\* the transaction aborts: setError(e); setSaving(false)
FlushFail(i) ==
  /\ flushes[i].pc \in {"get", "tx"}
  /\ IF flushes[i].pc = "get"
     THEN /\ UNCHANGED <<drafts, snapshots, nextId>>
          /\ error' = IF mounted THEN "GetError" ELSE error
     ELSE \E step \in TxSteps(snapshots \cup {NewSnapshot(nextId, flushes[i].next,
                                                         flushes[i].now)}, snapshotLimit) :
            LET row == NewSnapshot(nextId, flushes[i].next, flushes[i].now)
                begin == [drafts |-> drafts, snapshots |-> snapshots, nextId |-> nextId]
                after == TxAbort(begin, TxPartial(step, flushes[i].next, row))
            IN  /\ drafts' = after.drafts
                /\ snapshots' = after.snapshots
                /\ nextId' = after.nextId
                /\ error' = IF mounted THEN "TxError" ELSE error
  /\ flushes' = [flushes EXCEPT ![i] = SettledFlush("failed")]
  /\ saving' = IF mounted THEN FALSE ELSE saving
  /\ UNCHANGED <<writes, evicted, snapshotLimit, buffer, timerVars, clock, mounted, draft,
                 restores, pending, lastChange, signalled>>

\* the value the promise of restoreFromSnapshot resolves to when the invocation
\* ends at `pc`: the function returns nothing on either path
RestoreResolves(pc) == Undef

\* a restore invocation before its first read, and after it has settled
BlankRestore(snapshotId, pc) ==
  [snapshotId |-> snapshotId, pc |-> pc, snap |-> SnapshotGet({}, snapshotId),
   now |-> 0, next |-> NoRow]

\* restoreFromSnapshot(snapshotId): db.snapshots.get is called
RestoreCall(snapshotId) ==
  /\ mounted
  /\ restores' = Append(restores, BlankRestore(snapshotId, "snap"))
  /\ UNCHANGED <<storeVars, snapshotLimit, buffer, timerVars, clock, mounted, uiVars,
                 flushes, editVars, signalled>>

\* restore: db.snapshots.get resolves; return if there is no row, else read the
\* clock and call db.drafts.get
RestoreSnap(j) ==
  /\ restores[j].pc = "snap"
  /\ LET snap == SnapshotGet(snapshots, restores[j].snapshotId)
     IN  restores' = IF snap.id = 0
                     THEN [restores EXCEPT ![j] = BlankRestore(0, "notfound")]
                     ELSE [restores EXCEPT ![j].pc = "prev", ![j].snap = snap,
                                           ![j].now = clock]
  /\ UNCHANGED <<storeVars, snapshotLimit, buffer, timerVars, clock, mounted, uiVars,
                 flushes, editVars, signalled>>

\* restore: db.drafts.get resolves; next is computed and db.drafts.put is called
RestorePrev(j) ==
  /\ restores[j].pc = "prev"
  /\ restores' = [restores EXCEPT ![j].pc = "put",
                    ![j].next = RestoreNext(restores[j].snap, drafts, restores[j].now)]
  /\ UNCHANGED <<storeVars, snapshotLimit, buffer, timerVars, clock, mounted, uiVars,
                 flushes, editVars, signalled>>

\* RestorePut with the restored state also appended to the snapshots
RestorePutAddsSnapshot(j) ==
  /\ restores[j].pc = "put"
  /\ drafts' = restores[j].next
  /\ snapshots' = snapshots \cup {NewSnapshot(nextId, restores[j].next, restores[j].now)}
  /\ nextId' = nextId + 1
  /\ writes' = Append(writes, [kind |-> "restore", version |-> restores[j].next.version,
                               at |-> restores[j].now])
  /\ restores' = [restores EXCEPT ![j] = BlankRestore(restores[j].snapshotId, "done")]
  /\ draft' = IF mounted THEN restores[j].next ELSE draft
  /\ UNCHANGED <<evicted, snapshotLimit, buffer, timerVars, clock,
                 mounted, saving, error, flushes, editVars, signalled>>

\* restore: db.drafts.put commits, and its continuation follows: setDraft(next)
RestorePut(j) ==
  /\ restores[j].pc = "put"
  /\ drafts' = restores[j].next
  /\ writes' = Append(writes, [kind |-> "restore", version |-> restores[j].next.version,
                               at |-> restores[j].now])
  /\ restores' = [restores EXCEPT ![j] = BlankRestore(restores[j].snapshotId, "done")]
  /\ draft' = IF mounted THEN restores[j].next ELSE draft
  /\ UNCHANGED <<snapshots, nextId, evicted, snapshotLimit, buffer, timerVars, clock,
                 mounted, saving, error, flushes, editVars, signalled>>

\* ------------------------------------------------------------------ specifications
\* the model's room for one more invocation
Room(log, max, inFlight) == Len(log) < max /\ InFlight < inFlight

\* the handlers and the steps of the operations in flight, within the bounds given
Steps(maxFlushes, maxTicks, inFlight) ==
  \/ clock < maxTicks * TickMs /\ Tick
  \/ nextTimer <= MaxChanges /\ \E update \in Updates : OnChange(update)
  \/ Room(flushes, maxFlushes, inFlight) /\ TimerFire
  \/ Room(flushes, maxFlushes, inFlight) /\ OnVisibility
  \/ Room(flushes, maxFlushes, inFlight) /\ OnPageHide
  \/ Room(flushes, maxFlushes, inFlight) /\ Unmount
  \/ Room(restores, MaxRestores, inFlight) /\ \E snapshotId \in 1..nextId : RestoreCall(snapshotId)
  \/ \E i \in 1..Len(flushes) : FlushGet(i)
  \/ \E i \in 1..Len(flushes) : FlushCommit(i)
  \/ \E i \in 1..Len(flushes) : FlushFail(i)
  \/ \E j \in 1..Len(restores) : RestoreSnap(j)
  \/ \E j \in 1..Len(restores) : RestorePrev(j)
  \/ \E j \in 1..Len(restores) : RestorePut(j)

\* every interleaving of the handlers at their suspension points
Next == Steps(MaxFlushes, MaxTicks, MaxInFlight)

Spec == Init /\ [][Next]_vars

\* each flush and each restore runs to completion before the next one is called
SeqNext == Steps(MaxDeepFlushes, MaxDeepTicks, 1)

\* the ring of the spec's scenarios
SeqInit == Init /\ snapshotLimit = MaxSnapshotLimit

SeqSpec == SeqInit /\ [][SeqNext]_vars

\* the flushes alone, interleaved at their suspension points: no restore, no unmount
RingNext ==
  \/ clock < MaxDeepTicks * TickMs /\ Tick
  \/ nextTimer <= MaxChanges /\ \E update \in Updates : OnChange(update)
  \/ Room(flushes, MaxDeepFlushes, MaxInFlight) /\ TimerFire
  \/ Room(flushes, MaxDeepFlushes, MaxInFlight) /\ OnVisibility
  \/ Room(flushes, MaxDeepFlushes, MaxInFlight) /\ OnPageHide
  \/ \E i \in 1..Len(flushes) : FlushGet(i)
  \/ \E i \in 1..Len(flushes) : FlushCommit(i)
  \/ \E i \in 1..Len(flushes) : FlushFail(i)

RingSpec == Init /\ [][RingNext]_vars

\* the page stays alive and the store does not fail: edits, time, the timer and
\* the visibilitychange and pagehide handlers, each flush settling before the
\* next one is called; an edit leaves the clock room to reach its timer's due time
LiveNext ==
  \/ clock < MaxDeepTicks * TickMs /\ Tick
  \/ nextTimer <= MaxChanges /\ clock < MaxDeepTicks * TickMs
       /\ \E update \in Updates : OnChange(update)
  \/ InFlight < 1 /\ TimerFire
  \/ Room(flushes, MaxFlushes, 1) /\ OnVisibility
  \/ Room(flushes, MaxFlushes, 1) /\ OnPageHide
  \/ \E i \in 1..Len(flushes) : FlushGet(i)
  \/ \E i \in 1..Len(flushes) : FlushCommit(i)

\* time passes, a due timeout runs its callback, and the store answers
LiveSpec ==
  /\ Init
  /\ [][LiveNext]_vars
  /\ WF_vars(clock < MaxDeepTicks * TickMs /\ Tick)
  /\ WF_vars(InFlight < 1 /\ TimerFire)
  /\ WF_vars(\E i \in 1..Len(flushes) : FlushGet(i))
  /\ WF_vars(\E i \in 1..Len(flushes) : FlushCommit(i))

\* ------------------------------------------------------------------ properties
Min(a, b) == IF a < b THEN a ELSE b

Attributes == {"projectName", "promptName", "docJson", "selection"}

\* the snapshot rows of draftId
Mine == WhereDraft(snapshots, draftId)

IsFlushWrite(w) == w.kind = "flush"

\* the committed flushes, in commit order
FlushWrites == SelectSeq(writes, IsFlushWrite)

\* the left-to-right shallow merge of the updates of a sequence of onChange calls:
\* for each attribute the value of the last update that contains it
LastValue(entries, k) ==
  LET has == {x \in 1..Len(entries) : entries[x].update[k] # Undef}
  IN  IF has = {} THEN Undef
      ELSE entries[CHOOSE x \in has : \A y \in has : y <= x].update[k]

LeftToRight(entries) ==
  [projectName |-> LastValue(entries, "projectName"),
   promptName |-> LastValue(entries, "promptName"),
   docJson |-> LastValue(entries, "docJson"),
   selection |-> LastValue(entries, "selection")]

\* flush i is in flight
Flying(i) == flushes[i].pc \in {"get", "tx"}

\* this step is the commit of flush i
Commits(i) == flushes[i].pc = "tx" /\ flushes'[i].pc = "done"

\* the spec's scenario: snapshotLimit = 2 and the first three writes are flushes
\* at t = 0, t = 1500 and t = 3000 that wrote the versions 1, 2 and 3
ScenarioFlushes ==
  /\ snapshotLimit = 2
  /\ Len(writes) >= 3
  /\ \A k \in 1..3 : writes[k] = [kind |-> "flush", version |-> k, at |-> (k - 1) * 1500]

\* C1: when each flush and each restore runs to completion before the next one is
\* called, the versions written to the Draft row are 1, 2, 3, ... in commit order:
\* the k-th write, by a flush or by a restore, stores version k.
VersionsInOrder == \A k \in 1..Len(writes) : writes[k].version = k

\* C1 witness: three flushes and a restore have written the row, one after another
VersionsInOrderWitness ==
  /\ Len(writes) = 4
  /\ \E k \in 1..4 : writes[k].kind = "restore"
  /\ writes[4].kind = "flush"

\* C2: in every committed state of the store the snapshot rows of draftId number
\* at most snapshotLimit, and exactly min(n, snapshotLimit) after n committed flushes.
RingBound ==
  /\ Cardinality(Mine) <= snapshotLimit
  /\ Cardinality(Mine) = Min(Len(FlushWrites), snapshotLimit)

\* C2 witness: more flushes than snapshotLimit have committed, and a restore has written
RingBoundWitness ==
  /\ Len(FlushWrites) > snapshotLimit
  /\ Len(writes) > Len(FlushWrites)

\* C3: the rows a flush transaction deletes are rows of draftId that all precede,
\* by createdAt and then by id, every row it retains, and it retains snapshotLimit
\* rows; in the scenario the rows of t = 1500 and t = 3000 remain and the Draft row
\* has version 3.
RingOrdering ==
  /\ \A d \in evicted : d.draftId = draftId /\ \A r \in Mine : Precedes(d, r)
  /\ evicted # {} => Cardinality(Mine) = snapshotLimit
  /\ (ScenarioFlushes /\ Len(writes) = 3) =>
       /\ {r.createdAt : r \in Mine} = {1500, 3000}
       /\ Cardinality(Mine) = 2
       /\ drafts.version = 3

\* C3 witness: the scenario has run and its third flush has evicted the row of t = 0
RingOrderingWitness ==
  /\ ScenarioFlushes
  /\ Len(writes) = 3
  /\ \E d \in evicted : d.createdAt = 0

\* C4: while no lifecycle handler has run, every flush is called by the timer, no
\* earlier than delayMs after the latest onChange call; it takes every call merged
\* since the flush before it, so calls less than delayMs apart are never split
\* between two flushes, and its update is the left-to-right merge of their updates.
DebounceCoalescing ==
  ~signalled =>
    /\ \A i \in 1..Len(flushes) : Flying(i) =>
         /\ flushes[i].trigger = "timer"
         /\ flushes[i].taken # <<>>
         /\ flushes[i].quiet >= delayMs
         /\ flushes[i].taken[1].n = 1 \/ flushes[i].taken[1].gap >= delayMs
         /\ flushes[i].update = LeftToRight(flushes[i].taken)
    /\ pending # <<>> => (pending[1].n = 1 \/ pending[1].gap >= delayMs)
    /\ buffer = LeftToRight(pending)

\* C4 witness: the timer's flush has taken two onChange calls made within delayMs,
\* the second of which overrides an attribute of the first
DebounceCoalescingWitness ==
  /\ ~signalled
  /\ \E i \in 1..Len(flushes) :
       /\ Flying(i)
       /\ Len(flushes[i].taken) = 2
       /\ flushes[i].taken[2].gap < delayMs
       /\ flushes[i].taken[1].update.docJson = "d1"
       /\ flushes[i].update.docJson = "d2"
       /\ flushes[i].update.projectName = ""

\* C5 (as claimed): a visibilitychange or pagehide handler that runs with a
\* non-empty buffer leaves no timer armed and calls a flush with the buffer's
\* content at once, and the Draft row that flush commits holds the buffered value of
\* every attribute the buffer contained.
ForcedFlushMatchesBuffer ==
  [][\A i \in 1..Len(flushes') :
       /\ (i > Len(flushes) /\ flushes'[i].trigger = "lifecycle" /\ KeyCount(buffer) > 0) =>
            /\ timers' = {}
            /\ flushes'[i].update = buffer
            /\ flushes'[i].now = clock
            /\ buffer' = EmptyUpdate
       /\ (i <= Len(flushes) /\ Commits(i) /\ flushes[i].trigger = "lifecycle") =>
            \A k \in Attributes :
              flushes[i].update[k] # Undef => drafts'[k] = flushes[i].update[k]
    ]_vars

\* C6: no step of restoreFromSnapshot changes the snapshots table: it adds no row,
\* deletes none and evicts none, whatever the snapshotId and the state of the store.
RestoreKeepsSnapshots ==
  [][restores' # restores =>
       snapshots' = snapshots /\ nextId' = nextId /\ evicted' = evicted]_vars

\* C6 witness: a restore of a snapshot of draftId has written the Draft row while
\* the ring is full
RestoreKeepsSnapshotsWitness ==
  /\ \E j \in 1..Len(restores) :
       /\ restores[j].pc = "done"
       /\ \E r \in Mine : r.id = restores[j].snapshotId
  /\ Cardinality(Mine) = snapshotLimit
  /\ \E k \in 1..Len(writes) : writes[k].kind = "restore"

\* C7: when each operation runs to completion before the next one is called, the
\* write of a restore leaves the Draft row with the snapshot's docJson and
\* selection, the projectName and promptName of the row it replaces, and that
\* row's version plus 1 (1 when there was none); in the scenario, restoring the
\* snapshot of t = 1500 writes version 4.
RestoreResult ==
  [][\A j \in 1..Len(restores) :
       (restores[j].pc = "put" /\ restores'[j].pc = "done") =>
         LET snap == SnapshotGet(snapshots, restores[j].snapshotId)
         IN  /\ snap.id # 0
             /\ drafts'.docJson = snap.docJson
             /\ drafts'.selection = snap.selection
             /\ drafts'.projectName = drafts.projectName
             /\ drafts'.promptName = drafts.promptName
             /\ drafts'.version = drafts.version + 1
             /\ drafts'.id = draftId
             /\ (ScenarioFlushes /\ Len(writes) = 3 /\ snap.createdAt = 1500) =>
                  drafts'.version = 4
    ]_vars

\* C7 witness: after the scenario's three flushes the snapshot of t = 1500 has
\* been restored over a row with other content and with naming fields
RestoreResultWitness ==
  /\ ScenarioFlushes
  /\ Len(writes) = 4
  /\ writes[4].kind = "restore"
  /\ restores[1].pc = "done"
  /\ SnapshotGet(snapshots, restores[1].snapshotId).createdAt = 1500
  /\ \E r \in Mine : r.createdAt = 3000 /\ r.docJson # drafts.docJson
  /\ drafts.version = 4
  /\ drafts.docJson = "d1"
  /\ drafts.projectName = ""

\* C8 (as claimed): a flush called with an empty buffer returns without writing:
\* it is never in flight, so no commit of such a flush changes the Draft row or
\* the snapshots table.
EmptyFlushWritesNothing ==
  [][\A i \in 1..Len(flushes) :
       (Commits(i) /\ KeyCount(flushes[i].update) = 0) =>
         drafts' = drafts /\ snapshots' = snapshots
    ]_vars

\* the flushes and restores between their read of the prior Draft row and their
\* write of the next one
InProgress ==
  Cardinality({i \in 1..Len(flushes) : flushes[i].pc = "tx"})
    + Cardinality({j \in 1..Len(restores) : restores[j].pc = "put"})

\* C9 (as claimed): at most one flush or restore of draftId is between its read of
\* the prior Draft row and its write at any time.
OneOperationInProgress == InProgress <= 1

\* the onChange calls whose update is in the buffer or in a flush in flight
Held ==
  Numbers(pending)
    \cup UNION {Numbers(flushes[i].taken) : i \in {x \in 1..Len(flushes) : Flying(x)}}

\* the number of places that hold the update of onChange call n: the buffer and
\* the flushes in flight
Holders(n) ==
  (IF n \in Numbers(pending) THEN 1 ELSE 0)
    + Cardinality({i \in 1..Len(flushes) : Flying(i) /\ n \in Numbers(flushes[i].taken)})

\* this step settles flush i (commit or failure), or calls a flush
Settles(i) == Flying(i) /\ ~Flying(i)'

\* C10 (as claimed): an onChange call made while a flush is in flight is persisted
\* by a later flush and never lost: the flush that holds it does not end without
\* writing it.
OverlappedEditsNeverLost ==
  [][\A i \in 1..Len(flushes) :
       (Settles(i) /\ \E k \in 1..Len(flushes[i].taken) : flushes[i].taken[k].during) =>
         flushes'[i].pc = "done"
    ]_vars

\* C10 (amended): flush takes the buffer and clears it in one step, so the update
\* of an onChange call is in one place at a time, the buffer or one flush in
\* flight, and leaves it only when that flush settles; a flush holds only calls
\* made before it was called, so a call made while a flush is in flight is in the
\* fresh buffer, is taken by one later flush, and is part of the update that flush
\* writes if it commits (a flush that fails drops it).
EditsTakenOnce ==
  /\ \A n \in Held : Holders(n) = 1
  /\ \A i \in 1..Len(flushes) : Flying(i) =>
       /\ \A k \in 1..Len(flushes[i].taken) : flushes[i].taken[k].seen < i
       /\ flushes[i].update = LeftToRight(flushes[i].taken)
  /\ \A k \in 1..Len(pending) :
       /\ pending[k].seen <= Len(flushes)
       /\ pending[k].during => pending[k].seen >= 1
  /\ buffer = LeftToRight(pending)

\* C10 witness: an onChange call made while a flush was in flight sits in a later
\* flush that has read the prior row, and the buffer is empty again
EditsTakenOnceWitness ==
  \E i \in 1..Len(flushes) :
    /\ flushes[i].pc = "tx"
    /\ \E k \in 1..Len(flushes[i].taken) : flushes[i].taken[k].during
    /\ flushes[i].update.docJson = "d2"
    /\ pending = <<>>

\* this step is the failure of flush i
Fails(i) == Flying(i) /\ flushes'[i].pc = "failed"

\* C11: a flush that fails at any storage step leaves the Draft row, the snapshots
\* table and the key counter exactly as they were; the store changes only by whole
\* commits: a flush's write of the Draft row comes with its snapshot row in the
\* same step, and a snapshot row is deleted only in the step of a flush's write.
FlushAtomicity ==
  [][/\ \A i \in 1..Len(flushes) : Fails(i) =>
          drafts' = drafts /\ snapshots' = snapshots /\ nextId' = nextId
             /\ writes' = writes
     /\ (\E i \in 1..Len(flushes) : drafts' # drafts /\ Flying(i) /\ ~Flying(i)') =>
          /\ nextId' = nextId + 1
          /\ \E r \in snapshots' \cup evicted' :
               r.id = nextId /\ r.createdAt = drafts'.updatedAt
     /\ snapshots' # snapshots =>
          /\ Len(writes') = Len(writes) + 1
          /\ writes'[Len(writes')].kind = "flush"
          /\ drafts'.version = writes'[Len(writes')].version
    ]_vars

\* C11 witness: a transaction has failed while the ring is full and the Draft
\* row holds the write of an earlier flush
FlushAtomicityWitness ==
  /\ error = "TxError"
  /\ \E i \in 1..Len(flushes) : flushes[i].pc = "failed"
  /\ Cardinality(Mine) = snapshotLimit
  /\ Len(FlushWrites) = 1
  /\ drafts.version = 1

\* C12: the step in which a flush fails sets the error state and lowers saving
\* (while the hook is mounted), leaves the buffer and the calls merged into it
\* as they are, so the update the flush took is in no buffer and in no flush
\* afterwards, and arms no timer and calls no flush.
FlushFailureHandling ==
  [][\A i \in 1..Len(flushes) : Fails(i) =>
       /\ mounted => error' \notin {Undef, Null} /\ saving' = FALSE
       /\ buffer' = buffer /\ pending' = pending
       /\ Numbers(flushes[i].taken) \cap Held' = {}
       /\ timers' = timers /\ timerRef' = timerRef
       /\ Len(flushes') = Len(flushes)
       /\ \A x \in 1..Len(flushes) : x # i => flushes'[x] = flushes[x]
    ]_vars

\* C12 witness: the only flush called has failed and wrote nothing, the error is
\* set, saving is down, and an onChange call made while it was in flight is
\* still in the buffer with its timer armed
FlushFailureHandlingWitness ==
  /\ Len(flushes) = 1
  /\ flushes[1].pc = "failed"
  /\ error = "TxError"
  /\ ~saving
  /\ drafts = NoRow
  /\ Len(pending) = 1
  /\ pending[1].during
  /\ buffer.docJson = "d2"
  /\ timers # {}

\* this step is restore j finding no row under its snapshotId
NotFound(j) == restores[j].pc = "snap" /\ restores'[j].pc = "notfound"

\* C13 (as claimed): a restore that finds no row under its snapshotId changes
\* nothing, neither the Draft row, the snapshots table nor the draft state, and
\* reports it: the error state is set, or its promise resolves to another value
\* than that of a restore that wrote.
MissingSnapshotReported ==
  [][\A j \in 1..Len(restores) : NotFound(j) =>
       /\ drafts' = drafts /\ snapshots' = snapshots /\ nextId' = nextId
       /\ draft' = draft /\ writes' = writes
       /\ \/ error' \notin {Undef, Null} /\ error' # error
          \/ RestoreResolves("notfound") # RestoreResolves("done")
    ]_vars

\* C14: the unmount step leaves no timer armed; with a non-empty buffer it calls
\* one flush that takes the buffer, with an empty buffer it calls none and
\* changes nothing in the store; after it no flush is called and no timer armed.
TeardownFlush ==
  [][/\ (mounted /\ ~mounted') =>
          /\ timers' = {}
          /\ KeyCount(buffer) > 0 =>
               /\ Len(flushes') = Len(flushes) + 1
               /\ flushes'[Len(flushes')].trigger = "unmount"
               /\ flushes'[Len(flushes')].update = buffer
               /\ buffer' = EmptyUpdate
          /\ KeyCount(buffer) = 0 =>
               /\ flushes' = flushes
               /\ buffer' = buffer
          /\ drafts' = drafts /\ snapshots' = snapshots
          /\ \A i \in 1..Len(flushes) : flushes'[i] = flushes[i]
     /\ ~mounted =>
          /\ Len(flushes') = Len(flushes)
          /\ timers' = {} /\ ~mounted'
    ]_vars

\* C14 witness: the hook was unmounted with an edit in the buffer and its timer
\* armed; the one flush called is the unmount's, the timer is gone
TeardownFlushWitness ==
  /\ ~mounted
  /\ Len(flushes) = 1
  /\ flushes[1].trigger = "unmount"
  /\ flushes[1].update.docJson = "d1"
  /\ timerRef # 0
  /\ timers = {}
  /\ buffer = EmptyUpdate

\* this step is flush i computing its next row from the row it read
Computes(i) == flushes[i].pc = "get" /\ flushes'[i].pc = "tx"

\* C15 (as claimed): the row a flush computes holds, for every attribute, the
\* buffered value when the buffer contains the attribute, an empty string and a
\* null selection included, and otherwise the value of the row it read (an
\* attribute neither has stays absent, or null for the selection).
FlushMergeRule ==
  [][\A i \in 1..Len(flushes) : Computes(i) =>
       \A k \in Attributes :
         LET value == flushes'[i].next[k]
         IN  IF flushes[i].update[k] # Undef
             THEN value = flushes[i].update[k]
             ELSE \/ value = drafts[k]
                  \/ k = "selection" /\ Nullish(drafts[k]) /\ value = Null
    ]_vars

\* C16 (as claimed): under every interleaving of flushes and restores no two
\* committed writes of the Draft row carry the same version, and the stored
\* version never decreases: the versions grow strictly in commit order.
VersionsUnique ==
  \A a, b \in 1..Len(writes) : a < b => writes[a].version < writes[b].version

\* this step calls a flush from the given trigger
Calls(trigger) ==
  Len(flushes') = Len(flushes) + 1 /\ flushes'[Len(flushes')].trigger = trigger

\* C17: at most one timer is armed, and it is the one timerRef holds; an onChange
\* call leaves only the timer it arms; a visibilitychange, pagehide or unmount
\* handler leaves none armed; the timer that calls a flush is the armed one, the
\* latest set and due, so a timer that was cancelled calls none.
TimerDiscipline ==
  [][/\ Cardinality(timers') <= 1
     /\ \A t \in timers' : t.id = timerRef'
     /\ nextTimer' # nextTimer =>
          timers' = {[id |-> nextTimer, due |-> clock + delayMs]}
     /\ (Calls("lifecycle") \/ Calls("unmount") \/ (mounted /\ ~mounted')) => timers' = {}
     /\ Calls("timer") =>
          /\ timers = {[id |-> nextTimer - 1, due |-> lastChange + delayMs]}
          /\ timerRef = nextTimer - 1
          /\ clock >= lastChange + delayMs
          /\ timers' = {} /\ timerRef' = 0
    ]_vars

\* C17 witness: the second onChange call replaced the first call's timer, and a
\* visibilitychange or pagehide handler then cancelled the second one
TimerDisciplineWitness ==
  /\ mounted
  /\ nextTimer = 3
  /\ timerRef = 2
  /\ timers = {}
  /\ Len(flushes) = 1
  /\ flushes[1].trigger = "lifecycle"
  /\ Len(flushes[1].taken) = 2

\* the keys of a set of snapshot rows
Keys(rows) == {r.id : r \in rows}

\* C18: the commit of a flush adds one snapshot row, under a fresh key, of draftId,
\* with the docJson and selection of the Draft row the same step writes and its
\* updatedAt as createdAt; every row of the table stays as it is under every step
\* of a flush or a restore, or is removed by the ring eviction of a flush's commit,
\* which removes rows of draftId only and leaves the ring full.
SnapshotFidelity ==
  [][/\ \A i \in 1..Len(flushes) : Commits(i) =>
          LET fresh == {r \in snapshots' \cup evicted' : r.id \notin Keys(snapshots)}
          IN  /\ fresh = {[id |-> nextId, draftId |-> draftId,
                           docJson |-> drafts'.docJson, selection |-> drafts'.selection,
                           createdAt |-> drafts'.updatedAt]}
              /\ nextId' = nextId + 1
     /\ \A r \in snapshots' : r.id \in Keys(snapshots) => r \in snapshots
     /\ \A r \in snapshots : r \notin snapshots' =>
          /\ \E i \in 1..Len(flushes) : Commits(i)
          /\ r \in evicted'
          /\ r.draftId = draftId
          /\ r.id \notin Keys(snapshots')
          /\ Cardinality(WhereDraft(snapshots', draftId)) = snapshotLimit
     /\ (\A i \in 1..Len(flushes) : ~Commits(i)) => snapshots' = snapshots
    ]_vars

\* C18 witness: the second flush has committed a row with a selection; its
\* snapshot holds the row's content, and the first flush's snapshot, with other
\* content, is still in the table
SnapshotFidelityWitness ==
  /\ Len(FlushWrites) = 2
  /\ drafts.selection = "s1"
  /\ \E r \in Mine :
       /\ r.docJson = drafts.docJson /\ r.selection = "s1"
       /\ r.createdAt = drafts.updatedAt
       /\ \E o \in Mine : o.id < r.id /\ o.docJson # r.docJson

\* C19 (as claimed): while the hook is mounted, saving = false implies that no
\* flush is between its call and the commit or failure of its transaction, also
\* when a second flush was called before the first one settled.
SavingCoversFlush == (mounted /\ ~saving) => ~FlushInFlight

\* the contents the buffer can have after the onChange calls of one behaviour
Buffers == {Spread(Spread(EmptyUpdate, a), b) : a, b \in Updates}

\* the Draft row holds every attribute value of u, a flush has committed, the
\* buffer is empty and no timer is armed
Persisted(u) ==
  /\ Len(writes) >= 1
  /\ buffer = EmptyUpdate
  /\ timers = {}
  /\ \A k \in Attributes : u[k] # Undef => drafts[k] = u[k]

\* C20 (as claimed): when the buffer holds the merged edits u after the n-th
\* onChange call, then eventually either another onChange call is made or a flush
\* has committed, the buffer is empty, no timer is armed and the Draft row holds
\* every attribute value of u.
EventualPersistence ==
  \A u \in Buffers : \A n \in 2..(MaxChanges + 1) :
    [](((buffer = u /\ nextTimer = n /\ KeyCount(u) > 0))
         => <>(nextTimer # n \/ Persisted(u)))

\* this step is the write of restore j
Restores(j) == restores[j].pc = "put" /\ restores'[j].pc = "done"

\* C21 (as claimed): a restore writes the Draft row of draftId only from a
\* snapshot row whose draftId is draftId; a restore that read the row of another
\* draft leaves the Draft row as it is.
RestoreOwnership ==
  [][\A j \in 1..Len(restores) :
       /\ Restores(j) => restores[j].snap.draftId = draftId
       /\ (restores[j].pc # "snap" /\ restores[j].snap.draftId = otherDraftId) =>
            drafts' = drafts
    ]_vars

====
